---- MODULE Spec2Model ----
(***************************************************************************)
(* Complaint lifecycle of Smart_Waste_Management: the express router of    *)
(* routes/complaints (src/unnamed/part_000) with its three state-changing  *)
(* handlers POST / (create), POST /:id/assign and POST /:id/resolve, and   *)
(* its listing GET /.                                                      *)
(*                                                                         *)
(* Every handler is an async function.  It runs synchronously up to its    *)
(* next `await` of a store call, so one action of the model is one store   *)
(* call together with the synchronous code that follows it up to the next  *)
(* await (or up to the response).  Handlers of distinct requests           *)
(* interleave at these awaits.  Each store call either returns or throws   *)
(* (src/backend/src/server.js:19-31 starts the server even when the        *)
(* database connection failed); a call that throws has changed nothing.    *)
(***************************************************************************)
EXTENDS Integers, Sequences, FiniteSets, TLC

VARIABLES complaints, teams, users, events, reqs, started, wrote, finished

vars == <<complaints, teams, users, events, reqs, started, wrote, finished>>

store == <<complaints, teams, users, events>>

-----------------------------------------------------------------------------
(* Bounds of the model.                                                    *)

MaxComplaints == 2
\* requests served in a run whose store calls all return
MaxRequests == 4
\* requests served in a run whose store calls may throw
MaxRequestsFaulty == 3
NumSlots == 2

-----------------------------------------------------------------------------
(* Values.                                                                 *)

Slots == 1..NumSlots
Users == {1, 2, 3}
NoUser == 0
NoTeam == ""
NoProof == ""
NoTitle == ""
NoPriority == "undefined"

\* the users that send requests; user 3 is a team member that sends none
Callers == {1, 2}

Role(u) == IF u = 1 THEN "citizen" ELSE IF u = 2 THEN "admin" ELSE "staff"

\* requireAuth(roles): the caller's role is one of the roles of the route
RequireAuth(u, roles) == Role(u) \in roles

TeamNames == {"TeamA", "TeamB", "TeamC", "Ghost"}
ComplaintIds == 1..MaxComplaints
Titles == {NoTitle, "bin"}
Priorities == {NoPriority, "High", "Medium", "Low"}
Proofs == {NoProof, "x.jpg"}
StoreOutcomes == {"ok", "throw"}

\* registry of teams: administered outside this router, which only reads
\* name, status and members and increments the two counters
InitTeams ==
  [n \in {"TeamA", "TeamB", "TeamC"} |->
     [status |-> IF n = "TeamC" THEN "Break" ELSE "Active",
      activeTasks |-> 0,
      completed |-> 0,
      members |-> IF n = "TeamA" THEN <<3>> ELSE <<2, 3>>]]

InitUsers == [u \in Users |-> [ecoPoints |-> 0, complaintsCount |-> 0]]

NoTeamData == [found |-> FALSE, status |-> "", members |-> <<>>]
NoDoc == [id |-> 0, userId |-> NoUser, assignedTeam |-> NoTeam, assignedBy |-> NoUser]

IdleReq ==
  [op |-> "none", pc |-> "idle", user |-> NoUser, id |-> 0, team |-> NoTeam,
   proof |-> NoProof, title |-> NoTitle, priority |-> NoPriority,
   teamData |-> NoTeamData, c |-> NoDoc, code |-> 0, error |-> "",
   warned |-> FALSE, items |-> <<>>]

-----------------------------------------------------------------------------
(* Pure helpers of the handlers.                                           *)

\* severityScore expression of POST /
SeverityScore(priority) ==
  IF priority = "High" THEN 50 ELSE IF priority = "Medium" THEN 30 ELSE 10

\* priority || 'Medium'
StoredPriority(priority) == IF priority = NoPriority THEN "Medium" ELSE priority

\* status a new Complaint document gets when create passes none
DefaultStatus == "open"

TitleNeverMissing(title) == FALSE

\* !title
TitleMissing(title) == title = NoTitle

\* !req.body.proofImageUrl
ProofMissing(proof) == proof = NoProof

\* the document Complaint.create persists
NewComplaint(u, title, priority) ==
  [userId |-> u, title |-> title,
   priority |-> StoredPriority(priority),
   severityScore |-> SeverityScore(priority),
   status |-> DefaultStatus,
   assignedTeam |-> NoTeam, assignedBy |-> NoUser,
   proofImageUrl |-> NoProof, resolvedBy |-> NoUser]

\* Complaint.findById...: is there a document with this id
Exists(id) == id \in 1..Len(complaints)

\* .limit(200) of GET /
PageLimit == 200

VisibleToAll(u, doc) == TRUE

\* the filter of Complaint.find in GET /: { userId: req.user.id } for a
\* citizen, none for admin and staff
Visible(u, doc) == Role(u) = "citizen" => doc.userId = u

\* .sort({ createdAt: -1 }): the ids newest first
NewestFirst == [i \in 1..Len(complaints) |-> Len(complaints) + 1 - i]

\* .limit(n)
Limit(seq, n) == SubSeq(seq, 1, IF Len(seq) < n THEN Len(seq) ELSE n)

\* the items GET / answers to caller u
Listing(u) ==
  LET ids == SelectSeq(NewestFirst, LAMBDA id : Visible(u, complaints[id]))
  IN  Limit([i \in 1..Len(ids) |-> [id |-> ids[i], userId |-> complaints[ids[i]].userId]],
            PageLimit)

ResolveUpdateDocNoProof(doc, proof, actor) ==
  [doc EXCEPT !.status = "resolved", !.resolvedBy = actor]

\* the update object of POST /:id/resolve applied to a document
ResolveUpdateDoc(doc, proof, actor) ==
  [doc EXCEPT !.status = "resolved", !.proofImageUrl = proof, !.resolvedBy = actor]

\* the update object of POST /:id/assign applied to a document
AssignUpdateDoc(doc, team, actor) ==
  [doc EXCEPT !.status = "in_progress", !.assignedTeam = team, !.assignedBy = actor]

\* what the handler keeps of the document findByIdAndUpdate returns ({new: true})
Snapshot(id, doc) ==
  [id |-> id, userId |-> doc.userId, assignedTeam |-> doc.assignedTeam,
   assignedBy |-> doc.assignedBy]

\* Team.findOne({ name: team }).populate('members', '_id')
FindTeam(name) ==
  IF name \in DOMAIN teams
  THEN [found |-> TRUE, status |-> teams[name].status, members |-> teams[name].members]
  ELSE NoTeamData

OnBreakIgnored(teamData) == FALSE

\* teamData && teamData.status === 'Break'
OnBreak(teamData) == teamData.found /\ teamData.status = "Break"

\* Team.findOneAndUpdate({ name }, { $inc: { activeTasks: dA, completed: dC } }):
\* one atomic update of the matching document, nothing when none matches
IncTeam(ts, name, dA, dC) ==
  IF name \in DOMAIN ts
  THEN [ts EXCEPT ![name].activeTasks = @ + dA, ![name].completed = @ + dC]
  ELSE ts

AssignIncCompleted(ts, name) == IncTeam(ts, name, 1, 1)

AssignIncTwice(ts, name) == IncTeam(ts, name, 2, 0)

\* $inc of POST /:id/assign
AssignInc(ts, name) == IncTeam(ts, name, 1, 0)

ResolveIncActiveTwice(ts, name) == IncTeam(ts, name, -2, 1)

ResolveIncCompletedOnly(ts, name) == IncTeam(ts, name, 0, 1)

ResolveIncActiveOnly(ts, name) == IncTeam(ts, name, -1, 0)

\* $inc of POST /:id/resolve
ResolveInc(ts, name) == IncTeam(ts, name, -1, 1)

AwardFive(us, u) ==
  IF u \in DOMAIN us
  THEN [us EXCEPT ![u].ecoPoints = @ + 5, ![u].complaintsCount = @ + 1]
  ELSE us

\* User.findByIdAndUpdate(id, { $inc: { ecoPoints: 10, complaintsCount: 1 } })
Award(us, u) ==
  IF u \in DOMAIN us
  THEN [us EXCEPT ![u].ecoPoints = @ + 10, ![u].complaintsCount = @ + 1]
  ELSE us

Broadcast(type, id) == [type |-> type, to |-> NoUser, id |-> id]
Notification(uid, type, id) == [type |-> type, to |-> uid, id |-> id]

CreateEventsNone(c) == <<>>

\* the event POST / emits
CreateEvents(c) == <<Broadcast("complaint:new", c.id)>>

\* the loop over teamData.members of POST /:id/assign
MemberNotifications(teamData, id) ==
  [i \in 1..Len(teamData.members) |->
     Notification(teamData.members[i], "task_assigned", id)]

\* the events POST /:id/assign emits
AssignEvents(teamData, id) ==
  <<Broadcast("complaint:assigned", id)>> \o MemberNotifications(teamData, id)

\* the events POST /:id/resolve emits
ResolveEvents(c) ==
  <<Broadcast("complaint:resolved", c.id),
    Notification(c.userId, "complaint_resolved", c.id)>>
  \o (IF c.assignedBy # NoUser
      THEN <<Notification(c.assignedBy, "task_resolved", c.id)>>
      ELSE <<>>)

-----------------------------------------------------------------------------
(* Responses.                                                              *)

\* res.status(code).json(...): the handler returns and its locals are gone
Response(q, code, error) ==
  [IdleReq EXCEPT !.op = q.op, !.pc = "done", !.code = code, !.error = error,
                  !.warned = q.warned]

Respond(r, code, error) == [reqs EXCEPT ![r] = Response(reqs[r], code, error)]

Warn(q) == [q EXCEPT !.warned = TRUE]

Idle(r) == reqs[r].pc \in {"idle", "done"}

\* a request is served in the first slot that holds no running handler
Free(r) == Idle(r) /\ \A s \in 1..(r - 1) : ~Idle(s)

\* wrote[r]: has the request in slot r changed a store or emitted an event
Wrote(r) ==
  wrote' = [wrote EXCEPT ![r] = (IF Idle(r) THEN FALSE ELSE @) \/ (store' # store)]

\* finished[t]: how many assigns naming team t and how many resolves of a
\* complaint assigned to team t have answered 200
Finished(t, op) ==
  finished' = IF t \in DOMAIN finished
              THEN [finished EXCEPT ![t][op] = @ + 1]
              ELSE finished

InFlightCreates == Cardinality({s \in Slots : reqs[s].op = "create" /\ reqs[s].pc = "create"})

-----------------------------------------------------------------------------
(* POST / : create                                                         *)

StartCreate(r, u, title, priority, cap) ==
  /\ Free(r)
  /\ started < cap
  /\ Len(complaints) + InFlightCreates < MaxComplaints
  /\ RequireAuth(u, {"citizen", "admin", "staff"})
  /\ started' = started + 1
  /\ LET q == [IdleReq EXCEPT !.op = "create", !.user = u, !.title = title,
                              !.priority = priority]
     IN IF TitleMissing(title)
        THEN reqs' = [reqs EXCEPT ![r] = Response(q, 400, "Validation")]
        ELSE reqs' = [reqs EXCEPT ![r] = [q EXCEPT !.pc = "create"]]
  /\ UNCHANGED store
  /\ Wrote(r)
  /\ UNCHANGED finished

CreatePersist(r, out) ==
  /\ reqs[r].op = "create" /\ reqs[r].pc = "create"
  /\ IF out = "throw"
     THEN /\ reqs' = Respond(r, 500, "Infrastructure")
          /\ UNCHANGED store
     ELSE /\ complaints' = Append(complaints,
                 NewComplaint(reqs[r].user, reqs[r].title, reqs[r].priority))
          /\ reqs' = [reqs EXCEPT ![r].pc = "award",
                        ![r].c = [NoDoc EXCEPT !.id = Len(complaints) + 1,
                                               !.userId = reqs[r].user]]
          /\ UNCHANGED <<teams, users, events>>
  /\ UNCHANGED started
  /\ Wrote(r)
  /\ UNCHANGED finished

CreateAward(r, out) ==
  /\ reqs[r].op = "create" /\ reqs[r].pc = "award"
  /\ IF out = "throw"
     THEN /\ reqs' = Respond(r, 500, "Infrastructure")
          /\ UNCHANGED store
     ELSE /\ users' = Award(users, reqs[r].user)
          /\ reqs' = [reqs EXCEPT ![r].pc = "reporter"]
          /\ UNCHANGED <<complaints, teams, events>>
  /\ UNCHANGED started
  /\ Wrote(r)
  /\ UNCHANGED finished

CreateNotify(r, out) ==
  /\ reqs[r].op = "create" /\ reqs[r].pc = "reporter"
  /\ IF out = "throw"
     THEN /\ reqs' = Respond(r, 500, "Infrastructure")
          /\ UNCHANGED store
     ELSE /\ events' = events \o CreateEvents(reqs[r].c)
          /\ reqs' = Respond(r, 200, "")
          /\ UNCHANGED <<complaints, teams, users>>
  /\ UNCHANGED started
  /\ Wrote(r)
  /\ UNCHANGED finished

-----------------------------------------------------------------------------
(* POST /:id/resolve                                                       *)

StartResolve(r, u, id, proof, cap) ==
  /\ Free(r)
  /\ started < cap
  /\ RequireAuth(u, {"admin", "staff"})
  /\ started' = started + 1
  /\ LET q == [IdleReq EXCEPT !.op = "resolve", !.user = u, !.id = id, !.proof = proof]
     IN IF ProofMissing(proof)
        THEN reqs' = [reqs EXCEPT ![r] = Response(q, 400, "Validation")]
        ELSE reqs' = [reqs EXCEPT ![r] = [q EXCEPT !.pc = "update"]]
  /\ UNCHANGED store
  /\ Wrote(r)
  /\ UNCHANGED finished

ResolveUpdateGuarded(r, out) ==
  /\ reqs[r].op = "resolve" /\ reqs[r].pc = "update"
  /\ LET id == reqs[r].id IN
     IF out = "throw"
     THEN /\ reqs' = Respond(r, 500, "Infrastructure")
          /\ UNCHANGED store
     ELSE IF ~Exists(id) \/ complaints[id].status # "in_progress"
     THEN /\ reqs' = Respond(r, 404, "NotFound")
          /\ UNCHANGED store
     ELSE LET doc == ResolveUpdateDoc(complaints[id], reqs[r].proof, reqs[r].user) IN
          /\ complaints' = [complaints EXCEPT ![id] = doc]
          /\ reqs' = [reqs EXCEPT ![r].pc = "populate", ![r].c = Snapshot(id, doc)]
          /\ UNCHANGED <<teams, users, events>>
  /\ UNCHANGED started
  /\ Wrote(r)
  /\ UNCHANGED finished

ResolveUpdate(r, out) ==
  /\ reqs[r].op = "resolve" /\ reqs[r].pc = "update"
  /\ LET id == reqs[r].id IN
     IF out = "throw"
     THEN /\ reqs' = Respond(r, 500, "Infrastructure")
          /\ UNCHANGED store
     ELSE IF ~Exists(id)
     THEN /\ reqs' = Respond(r, 404, "NotFound")
          /\ UNCHANGED store
     ELSE LET doc == ResolveUpdateDoc(complaints[id], reqs[r].proof, reqs[r].user) IN
          /\ complaints' = [complaints EXCEPT ![id] = doc]
          /\ reqs' = [reqs EXCEPT ![r].pc = "populate", ![r].c = Snapshot(id, doc)]
          /\ UNCHANGED <<teams, users, events>>
  /\ UNCHANGED started
  /\ Wrote(r)
  /\ UNCHANGED finished

\* await c.populate(...).populate(...), then `if (c.assignedTeam)`: without a
\* team the handler goes on to emit and respond without a further await
ResolvePopulate(r, out) ==
  /\ reqs[r].op = "resolve" /\ reqs[r].pc = "populate"
  /\ IF out = "throw"
     THEN /\ reqs' = Respond(r, 500, "Infrastructure")
          /\ UNCHANGED store
     ELSE IF reqs[r].c.assignedTeam # NoTeam
     THEN /\ reqs' = [reqs EXCEPT ![r].pc = "counter"]
          /\ UNCHANGED store
     ELSE /\ events' = events \o ResolveEvents(reqs[r].c)
          /\ reqs' = Respond(r, 200, "")
          /\ UNCHANGED <<complaints, teams, users>>
  /\ UNCHANGED started
  /\ Wrote(r)
  /\ UNCHANGED finished

ResolveCounter(r, out) ==
  /\ reqs[r].op = "resolve" /\ reqs[r].pc = "counter"
  /\ IF out = "throw"
     THEN /\ reqs' = [reqs EXCEPT ![r] = Response(Warn(reqs[r]), 200, "")]
          /\ UNCHANGED teams
     ELSE /\ teams' = ResolveInc(teams, reqs[r].c.assignedTeam)
          /\ reqs' = Respond(r, 200, "")
  /\ events' = events \o ResolveEvents(reqs[r].c)
  /\ UNCHANGED <<complaints, users, started>>
  /\ Wrote(r)
  /\ Finished(reqs[r].c.assignedTeam, "resolves")

-----------------------------------------------------------------------------
(* POST /:id/assign                                                        *)

StartAssign(r, u, id, team, cap) ==
  /\ Free(r)
  /\ started < cap
  /\ RequireAuth(u, {"admin", "staff"})
  /\ started' = started + 1
  /\ reqs' = [reqs EXCEPT ![r] = [IdleReq EXCEPT !.op = "assign", !.pc = "team",
                                    !.user = u, !.id = id, !.team = team]]
  /\ UNCHANGED store
  /\ Wrote(r)
  /\ UNCHANGED finished

AssignFindTeam(r, out) ==
  /\ reqs[r].op = "assign" /\ reqs[r].pc = "team"
  /\ IF out = "throw"
     THEN reqs' = Respond(r, 500, "Infrastructure")
     ELSE LET teamData == FindTeam(reqs[r].team) IN
          IF OnBreak(teamData)
          THEN reqs' = Respond(r, 400, "Conflict")
          ELSE reqs' = [reqs EXCEPT ![r].pc = "update", ![r].teamData = teamData]
  /\ UNCHANGED <<store, started>>
  /\ Wrote(r)
  /\ UNCHANGED finished

AssignUpdateMovingTask(r, out) ==
  /\ reqs[r].op = "assign" /\ reqs[r].pc = "update"
  /\ LET id == reqs[r].id IN
     IF out = "throw"
     THEN /\ reqs' = Respond(r, 500, "Infrastructure")
          /\ UNCHANGED store
     ELSE IF ~Exists(id)
     THEN /\ reqs' = Respond(r, 404, "NotFound")
          /\ UNCHANGED store
     ELSE LET doc == AssignUpdateDoc(complaints[id], reqs[r].team, reqs[r].user) IN
          /\ complaints' = [complaints EXCEPT ![id] = doc]
          /\ teams' = IncTeam(teams, complaints[id].assignedTeam, -1, 0)
          /\ reqs' = [reqs EXCEPT ![r].pc = "counter", ![r].c = Snapshot(id, doc)]
          /\ UNCHANGED <<users, events>>
  /\ UNCHANGED started
  /\ Wrote(r)
  /\ UNCHANGED finished

AssignUpdate(r, out) ==
  /\ reqs[r].op = "assign" /\ reqs[r].pc = "update"
  /\ LET id == reqs[r].id IN
     IF out = "throw"
     THEN /\ reqs' = Respond(r, 500, "Infrastructure")
          /\ UNCHANGED store
     ELSE IF ~Exists(id)
     THEN /\ reqs' = Respond(r, 404, "NotFound")
          /\ UNCHANGED store
     ELSE LET doc == AssignUpdateDoc(complaints[id], reqs[r].team, reqs[r].user) IN
          /\ complaints' = [complaints EXCEPT ![id] = doc]
          /\ reqs' = [reqs EXCEPT ![r].pc = "counter", ![r].c = Snapshot(id, doc)]
          /\ UNCHANGED <<teams, users, events>>
  /\ UNCHANGED started
  /\ Wrote(r)
  /\ UNCHANGED finished

AssignCounter(r, out) ==
  /\ reqs[r].op = "assign" /\ reqs[r].pc = "counter"
  /\ IF out = "throw"
     THEN /\ reqs' = [reqs EXCEPT ![r] = Response(Warn(reqs[r]), 200, "")]
          /\ UNCHANGED teams
     ELSE /\ teams' = AssignInc(teams, reqs[r].team)
          /\ reqs' = Respond(r, 200, "")
  /\ events' = events \o AssignEvents(reqs[r].teamData, reqs[r].c.id)
  /\ UNCHANGED <<complaints, users, started>>
  /\ Wrote(r)
  /\ Finished(reqs[r].team, "assigns")

-----------------------------------------------------------------------------
(* GET / : listing                                                         *)

StartList(r, u, cap) ==
  /\ Free(r)
  /\ started < cap
  /\ RequireAuth(u, {"citizen", "admin", "staff"})
  /\ started' = started + 1
  /\ reqs' = [reqs EXCEPT ![r] = [IdleReq EXCEPT !.op = "list", !.pc = "find",
                                    !.user = u]]
  /\ UNCHANGED store
  /\ Wrote(r)
  /\ UNCHANGED finished

ListFind(r, out) ==
  /\ reqs[r].op = "list" /\ reqs[r].pc = "find"
  /\ IF out = "throw"
     THEN reqs' = Respond(r, 500, "Infrastructure")
     ELSE reqs' = [reqs EXCEPT ![r] = [Response(reqs[r], 200, "") EXCEPT
                                         !.items = Listing(reqs[r].user)]]
  /\ UNCHANGED <<store, started>>
  /\ Wrote(r)
  /\ UNCHANGED finished

-----------------------------------------------------------------------------
(* The system.                                                             *)

Init ==
  /\ complaints = <<>>
  /\ teams = InitTeams
  /\ users = InitUsers
  /\ events = <<>>
  /\ reqs = [r \in Slots |-> IdleReq]
  /\ started = 0
  /\ wrote = [r \in Slots |-> FALSE]
  /\ finished = [t \in DOMAIN InitTeams |-> [assigns |-> 0, resolves |-> 0]]

Step(r, outcomes, cap) ==
  \/ \E u \in Callers, title \in Titles, priority \in Priorities :
        StartCreate(r, u, title, priority, cap)
  \/ \E out \in outcomes : CreatePersist(r, out)
  \/ \E out \in outcomes : CreateAward(r, out)
  \/ \E out \in outcomes : CreateNotify(r, out)
  \/ \E u \in Callers, id \in ComplaintIds, proof \in Proofs :
        StartResolve(r, u, id, proof, cap)
  \/ \E out \in outcomes : ResolveUpdate(r, out)
  \/ \E out \in outcomes : ResolvePopulate(r, out)
  \/ \E out \in outcomes : ResolveCounter(r, out)
  \/ \E u \in Callers, id \in ComplaintIds, team \in TeamNames :
        StartAssign(r, u, id, team, cap)
  \/ \E out \in outcomes : AssignFindTeam(r, out)
  \/ \E out \in outcomes : AssignUpdate(r, out)
  \/ \E out \in outcomes : AssignCounter(r, out)
  \/ \E u \in Callers : StartList(r, u, cap)
  \/ \E out \in outcomes : ListFind(r, out)

\* a store call may throw
Next == \E r \in Slots : Step(r, StoreOutcomes, MaxRequestsFaulty)

Spec == Init /\ [][Next]_vars

\* every store call returns
NextOk == \E r \in Slots : Step(r, {"ok"}, MaxRequests)

SpecOk == Init /\ [][NextOk]_vars

-----------------------------------------------------------------------------
(* Vocabulary of the properties.                                           *)

\* the request in slot r takes this step
Moved(r) == reqs'[r] # reqs[r]

\* the request that takes the step of slot r, with its inputs
Stepping(r) == IF Idle(r) THEN reqs'[r] ELSE reqs[r]

\* the events this step emits
Emitted == SubSeq(events', Len(events) + 1, Len(events'))

\* how many of the events of es satisfy: type and target
Count(es, type, to) ==
  Cardinality({i \in DOMAIN es : es[i].type = type /\ es[i].to = to})

Registered(t) == t \in DOMAIN teams

Members(t) == {teams[t].members[i] : i \in DOMAIN teams[t].members}

InProgressAt(t) ==
  Cardinality({id \in DOMAIN complaints :
                 complaints[id].assignedTeam = t /\ complaints[id].status = "in_progress"})

Quiescent == \A r \in Slots : Idle(r)

-----------------------------------------------------------------------------
(* Complaint status.                                                       *)

\* C1: every change of a complaint's status made by create, assign or resolve
\* is open -> in_progress or in_progress -> resolved; none goes from open
\* straight to resolved and none goes back from resolved.
C1_StatusOnlyMovesForward ==
  [][\A id \in DOMAIN complaints :
       complaints'[id].status # complaints[id].status =>
         <<complaints[id].status, complaints'[id].status>> \in
           {<<"open", "in_progress">>, <<"in_progress", "resolved">>}]_vars

\* C2: an assign whose complaint id is absent or names a resolved complaint
\* fails with NotFoundError (404) and leaves the complaint and every team's
\* counters unchanged.
C2_AssignOfAbsentOrResolvedIsNotFound ==
  [][\A r \in Slots :
       ( /\ reqs[r].op = "assign" /\ reqs[r].pc = "update" /\ Moved(r)
         /\ \/ ~Exists(reqs[r].id)
            \/ complaints[reqs[r].id].status = "resolved" )
       => /\ reqs'[r].code = 404
          /\ reqs'[r].error = "NotFound"
          /\ complaints' = complaints
          /\ teams' = teams]_vars

\* C3: in every reachable state every complaint whose status is resolved
\* carries a non-empty proof-of-resolution image reference.
C3_ResolvedCarriesProof ==
  \A id \in DOMAIN complaints :
    complaints[id].status = "resolved" => complaints[id].proofImageUrl # NoProof

\* a complaint has been resolved
C3_Witness ==
  \E id \in DOMAIN complaints :
    complaints[id].status = "resolved" /\ complaints[id].resolvedBy # NoUser

-----------------------------------------------------------------------------
(* Team counters.                                                          *)

\* C4: whenever no operation is in progress, each team's active-task count
\* equals the number of in_progress complaints assigned to that team.
C4_ActiveTasksMatchInProgress ==
  Quiescent => \A t \in DOMAIN teams : teams[t].activeTasks = InProgressAt(t)

\* C5: in every reachable state every team's active-task count and completed
\* count are at least 0.
C5_CountersNonNegative ==
  \A t \in DOMAIN teams : teams[t].activeTasks >= 0 /\ teams[t].completed >= 0

\* C7: no complaint ever has an assigned team that is absent from the Team
\* Registry (an assign naming such a team fails and changes no complaint).
C7_AssignedTeamIsRegistered ==
  \A id \in DOMAIN complaints :
    complaints[id].assignedTeam # NoTeam => Registered(complaints[id].assignedTeam)

-----------------------------------------------------------------------------
(* Failing operations.                                                     *)

\* C6: an assign that names a team whose status is Break fails at the team
\* lookup with ConflictError (400) -- with 500 only when the lookup itself
\* throws and the status is never read -- and no step of it changes a
\* complaint, a team counter or a user, or emits an event.
C6_AssignToTeamOnBreakFails ==
  [][\A r \in Slots :
       ( /\ Moved(r)
         /\ Stepping(r).op = "assign"
         /\ Registered(Stepping(r).team)
         /\ teams[Stepping(r).team].status = "Break" )
       => /\ store' = store
          /\ ~Idle(r) =>
               /\ reqs'[r].pc = "done"
               /\ \/ reqs'[r].code = 400 /\ reqs'[r].error = "Conflict"
                  \/ reqs'[r].code = 500 /\ reqs'[r].error = "Infrastructure"]_vars

\* an assign has been refused because its team is on break
C6_Witness ==
  \E r \in Slots :
    /\ reqs[r].op = "assign" /\ reqs[r].pc = "done"
    /\ reqs[r].code = 400 /\ reqs[r].error = "Conflict"
    /\ ~wrote[r]
    /\ complaints # <<>>

\* C8: an operation that fails with ValidationError or NotFoundError has
\* changed no complaint, team counter or user accumulator and emitted no
\* event; a create without title and a resolve without proof image fail so
\* (no handler goes on with them and no complaint is stored without title).
C8_ValidationAndNotFoundChangeNothing ==
  /\ \A r \in Slots : reqs[r].error \in {"Validation", "NotFound"} => ~wrote[r]
  /\ \A r \in Slots :
       /\ (reqs[r].op = "create" /\ ~Idle(r)) => reqs[r].title # NoTitle
       /\ (reqs[r].op = "resolve" /\ ~Idle(r)) => reqs[r].proof # NoProof
  /\ \A id \in DOMAIN complaints : complaints[id].title # NoTitle

\* one operation failed with ValidationError and one with NotFoundError while
\* there was a complaint to change
C8_Witness ==
  /\ complaints # <<>>
  /\ \E r, s \in Slots :
       /\ reqs[r].error = "Validation" /\ reqs[r].code = 400 /\ ~wrote[r]
       /\ reqs[s].error = "NotFound" /\ reqs[s].code = 404 /\ ~wrote[s]

-----------------------------------------------------------------------------
(* Successful operations.                                                  *)

\* the counter step of an assign: the step that ends a successful assign
AssignCompletes(r) == reqs[r].op = "assign" /\ reqs[r].pc = "counter" /\ Moved(r)

\* one task_assigned notification per member of team t, none to anyone else
OnePerMember(t) ==
  \A u \in Users :
    Count(Emitted, "task_assigned", u) =
      (IF Registered(t) /\ u \in Members(t) THEN 1 ELSE 0)

\* the steps of an assign before its counter step touch no team and emit nothing
AssignEarlierStepsQuiet(r) ==
  (Moved(r) /\ Stepping(r).op = "assign" /\ reqs[r].pc # "counter")
    => teams' = teams /\ events' = events

\* C9: a successful assign increases the named team's active-task count by
\* exactly 1, changes no other counter, and emits exactly one task_assigned
\* notification to each member of the named team and none to non-members.
C9_AssignIncrementsTeamByOne ==
  [][\A r \in Slots :
       /\ AssignEarlierStepsQuiet(r)
       /\ AssignCompletes(r) =>
            /\ reqs'[r].code = 200
            /\ Registered(reqs[r].team)
            /\ teams' = [teams EXCEPT ![reqs[r].team].activeTasks = @ + 1]
            /\ OnePerMember(reqs[r].team)]_vars

\* C9 as amended: the increase by exactly 1 happens when the named team is in
\* the registry and the counter update does not throw; otherwise no counter
\* changes (a throw is logged and suppressed, a team outside the registry has
\* no counters and no members) and the assign succeeds all the same.
C9_AssignIncrementsTeamUnlessSuppressed ==
  [][\A r \in Slots :
       /\ AssignEarlierStepsQuiet(r)
       /\ AssignCompletes(r) =>
            /\ reqs'[r].code = 200
            /\ IF Registered(reqs[r].team) /\ ~reqs'[r].warned
               THEN teams' = [teams EXCEPT ![reqs[r].team].activeTasks = @ + 1]
               ELSE teams' = teams
            /\ OnePerMember(reqs[r].team)]_vars

\* an assign to TeamB succeeded, counted and notified both members
C9_Witness ==
  /\ \E r \in Slots :
       reqs[r].op = "assign" /\ reqs[r].code = 200 /\ ~reqs[r].warned
  /\ teams["TeamB"].activeTasks = 1
  /\ teams["TeamA"].activeTasks = 0
  /\ Count(events, "task_assigned", 2) = 1
  /\ Count(events, "task_assigned", 3) = 1
  /\ Count(events, "task_assigned", 1) = 0

\* the counter step of a resolve: the step that ends a successful resolve of
\* a complaint that has an assigned team
ResolveCompletes(r) == reqs[r].op = "resolve" /\ reqs[r].pc = "counter" /\ Moved(r)

\* one complaint:resolved broadcast and one complaint_resolved notification
\* to the creator of complaint id
ResolvedAnnounced(id) ==
  /\ Count(Emitted, "complaint:resolved", NoUser) = 1
  /\ \A u \in Users :
       Count(Emitted, "complaint_resolved", u) =
         (IF u = complaints[id].userId THEN 1 ELSE 0)
  /\ \A i \in DOMAIN Emitted : Emitted[i].id = id

\* the steps of a resolve before its counter step touch no team
ResolveEarlierStepsQuiet(r) ==
  (Moved(r) /\ Stepping(r).op = "resolve" /\ reqs[r].pc # "counter")
    => teams' = teams

\* C10: a successful resolve of a complaint that has an assigned team
\* decreases that team's active-task count by exactly 1, increases its
\* completed count by exactly 1, and emits one complaint:resolved broadcast
\* and one complaint_resolved notification on the creator's channel.
C10_ResolveMovesOneTaskToCompleted ==
  [][\A r \in Slots :
       /\ ResolveEarlierStepsQuiet(r)
       /\ ResolveCompletes(r) =>
            /\ reqs'[r].code = 200
            /\ Registered(reqs[r].c.assignedTeam)
            /\ teams' = [teams EXCEPT ![reqs[r].c.assignedTeam].activeTasks = @ - 1,
                                      ![reqs[r].c.assignedTeam].completed = @ + 1]
            /\ ResolvedAnnounced(reqs[r].c.id)]_vars

\* C10 as amended: the two counters move when the assigned team is in the
\* registry and the counter update does not throw; otherwise no counter
\* changes (a throw is logged and suppressed) and the resolve succeeds and
\* emits its events all the same.
C10_ResolveMovesOneTaskUnlessSuppressed ==
  [][\A r \in Slots :
       /\ ResolveEarlierStepsQuiet(r)
       /\ ResolveCompletes(r) =>
            /\ reqs'[r].code = 200
            /\ IF Registered(reqs[r].c.assignedTeam) /\ ~reqs'[r].warned
               THEN teams' = [teams EXCEPT
                                ![reqs[r].c.assignedTeam].activeTasks = @ - 1,
                                ![reqs[r].c.assignedTeam].completed = @ + 1]
               ELSE teams' = teams
            /\ ResolvedAnnounced(reqs[r].c.id)]_vars

\* a complaint assigned to TeamA was resolved, counted and announced
C10_Witness ==
  /\ \E r \in Slots :
       reqs[r].op = "resolve" /\ reqs[r].code = 200 /\ ~reqs[r].warned
  /\ teams["TeamA"].activeTasks = 0
  /\ teams["TeamA"].completed = 1
  /\ \E id \in DOMAIN complaints :
       /\ complaints[id].status = "resolved"
       /\ complaints[id].assignedTeam = "TeamA"
       /\ Count(events, "complaint_resolved", complaints[id].userId) = 1
  /\ Count(events, "complaint:resolved", NoUser) = 1

-----------------------------------------------------------------------------
(* Create.                                                                 *)

\* C11: a successful create raises its creator's eco-points by exactly 10 and
\* the creator's complaint count by exactly 1, changes no other user's
\* accumulators, and emits exactly one complaint:new event, for the complaint
\* it persisted; no other step changes a user or emits complaint:new.
C11_CreateAwardsItsCreatorOnce ==
  [][/\ \A r \in Slots :
          (Moved(r) /\ Stepping(r).op = "create") =>
            /\ users' # users => reqs[r].pc = "award"
            /\ reqs'[r].pc = "reporter" =>
                 /\ reqs[r].pc = "award"
                 /\ users' = [users EXCEPT
                                ![reqs[r].user].ecoPoints = @ + 10,
                                ![reqs[r].user].complaintsCount = @ + 1]
            /\ reqs'[r].code = 200 =>
                 /\ reqs[r].pc = "reporter"
                 /\ reqs[r].c.id \in DOMAIN complaints
                 /\ complaints[reqs[r].c.id].userId = reqs[r].user
                 /\ Emitted = <<[type |-> "complaint:new", to |-> NoUser,
                                 id |-> reqs[r].c.id]>>
            /\ reqs'[r].code # 200 => Emitted = <<>>
     /\ (users' # users \/ Count(Emitted, "complaint:new", NoUser) > 0) =>
          \E r \in Slots : Moved(r) /\ reqs[r].op = "create"]_vars

\* user 1 has created one complaint and been awarded for it
C11_Witness ==
  /\ \E r \in Slots : reqs[r].op = "create" /\ reqs[r].code = 200
  /\ Len(complaints) = 1 /\ complaints[1].userId = 1
  /\ users[1].ecoPoints = 10 /\ users[1].complaintsCount = 1
  /\ users[2].ecoPoints = 0 /\ users[2].complaintsCount = 0
  /\ Count(events, "complaint:new", NoUser) = 1

\* C12: a failure of a side effect that follows the primary mutation (the
\* accumulator increment of create, the team counter update of assign and of
\* resolve) is suppressed: the operation still reports success and the primary
\* mutation stays.
C12_SideEffectFailuresAreSuppressed ==
  [][\A r \in Slots :
       ( /\ Moved(r)
         /\ \/ reqs[r].op = "create" /\ reqs[r].pc = "award"
            \/ reqs[r].op = "assign" /\ reqs[r].pc = "counter"
            \/ reqs[r].op = "resolve" /\ reqs[r].pc = "counter" )
       => /\ reqs'[r].code # 500
          /\ complaints' = complaints]_vars

-----------------------------------------------------------------------------
(* Resolve and re-assign, with every store call returning.                 *)

\* C13: a resolve with a proof on an existing complaint succeeds whatever the
\* complaint's status (open, in_progress or resolved), setting it to resolved
\* with the supplied proof; an open complaint that was never assigned is
\* resolved directly and no team counter changes.
C13_ResolveSucceedsFromEveryStatus ==
  [][\A r \in Slots :
       (Moved(r) /\ reqs[r].op = "resolve") =>
         /\ (reqs[r].pc = "update" /\ Exists(reqs[r].id)) =>
              /\ reqs[r].proof # NoProof
              /\ complaints[reqs[r].id].status \in {"open", "in_progress", "resolved"}
              /\ complaints'[reqs[r].id].status = "resolved"
              /\ complaints'[reqs[r].id].proofImageUrl = reqs[r].proof
              /\ reqs'[r].pc = "populate"
              /\ reqs'[r].c.assignedTeam = complaints[reqs[r].id].assignedTeam
              /\ teams' = teams
         /\ reqs[r].pc \in {"populate", "counter"} =>
              /\ reqs'[r].pc = "done" => reqs'[r].code = 200
              /\ reqs'[r].pc # "done" =>
                   reqs'[r].pc = "counter" /\ reqs[r].c.assignedTeam # NoTeam
              /\ reqs[r].c.assignedTeam = NoTeam =>
                   reqs'[r].code = 200 /\ teams' = teams]_vars

\* an open complaint that was never assigned has been resolved
C13_Witness ==
  /\ \E r \in Slots : reqs[r].op = "resolve" /\ reqs[r].code = 200
  /\ Len(complaints) = 1
  /\ complaints[1].status = "resolved"
  /\ complaints[1].assignedTeam = NoTeam
  /\ Count(events, "complaint:assigned", NoUser) = 0
  /\ \A t \in DOMAIN teams : teams[t].activeTasks = 0 /\ teams[t].completed = 0

\* C15: an assign of an in_progress complaint of team A to a different team B
\* that is registered and not on Break succeeds: the complaint's team becomes
\* B and it stays in_progress, B's active-task count rises by 1 and A's
\* counters do not change.
C15_ReassignLeavesPreviousTeamAlone ==
  [][\A r \in Slots :
       (Moved(r) /\ reqs[r].op = "assign") =>
         /\ ( /\ reqs[r].pc = "update"
              /\ Exists(reqs[r].id)
              /\ complaints[reqs[r].id].status = "in_progress"
              /\ complaints[reqs[r].id].assignedTeam \notin {NoTeam, reqs[r].team}
              /\ Registered(reqs[r].team)
              /\ teams[reqs[r].team].status # "Break" )
            => /\ complaints'[reqs[r].id].assignedTeam = reqs[r].team
               /\ complaints'[reqs[r].id].status = "in_progress"
               /\ teams' = teams
               /\ reqs'[r].pc = "counter"
         /\ (reqs[r].pc = "counter" /\ Registered(reqs[r].team))
            => /\ reqs'[r].code = 200
               /\ teams' = [teams EXCEPT ![reqs[r].team].activeTasks = @ + 1]]_vars

\* the complaint of TeamA has been assigned to TeamB
C15_Witness ==
  /\ Quiescent
  /\ Len(complaints) = 1
  /\ complaints[1].status = "in_progress"
  /\ complaints[1].assignedTeam = "TeamB"
  /\ finished["TeamA"].assigns = 1 /\ finished["TeamB"].assigns = 1
  /\ teams["TeamA"].activeTasks = 1 /\ teams["TeamA"].completed = 0
  /\ teams["TeamB"].activeTasks = 1

-----------------------------------------------------------------------------
(* Listing.                                                                *)

\* C14: a listing answered to a citizen never contains a complaint created
\* by another user; a listing answered to an admin or staff caller is drawn
\* from all complaints regardless of creator.
C14_ListingRespectsRole ==
  [][\A r \in Slots :
       ( /\ Moved(r)
         /\ reqs[r].op = "list" /\ reqs[r].pc = "find"
         /\ reqs'[r].code = 200 )
       => LET items == reqs'[r].items
              u == reqs[r].user
          IN  /\ \A i \in DOMAIN items :
                   /\ items[i].id \in DOMAIN complaints
                   /\ items[i].userId = complaints[items[i].id].userId
              /\ Role(u) = "citizen" =>
                   {items[i].id : i \in DOMAIN items} =
                     {id \in DOMAIN complaints : complaints[id].userId = u}
              /\ Role(u) \in {"admin", "staff"} =>
                   {items[i].id : i \in DOMAIN items} = DOMAIN complaints]_vars

\* a caller has been answered one complaint of the two stored, its own
C14_Witness ==
  \E r \in Slots :
    /\ reqs[r].op = "list" /\ reqs[r].code = 200
    /\ Len(reqs[r].items) = 1
    /\ Len(complaints) = 2
    /\ complaints[1].userId # complaints[2].userId
    /\ Role(reqs[r].items[1].userId) = "citizen"

-----------------------------------------------------------------------------
(* Severity.                                                               *)

\* C17: for every stored complaint, creates with an omitted priority
\* included, the stored severity score is the score of the stored priority
\* (High 50, Medium 30, Low 10).
C17_SeverityMatchesStoredPriority ==
  \A id \in DOMAIN complaints :
    complaints[id].severityScore =
      (CASE complaints[id].priority = "High" -> 50
         [] complaints[id].priority = "Medium" -> 30
         [] complaints[id].priority = "Low" -> 10
         [] OTHER -> -1)

-----------------------------------------------------------------------------
(* Tasks of a team.                                                        *)

\* C19: for every team the sum of its active-task count and its completed
\* count changes in no step except the counter update of an assign naming
\* that team, which raises it by exactly 1; resolve (and create) leave the
\* sum unchanged.
C19_TaskTotalRisesOnlyAtAssign ==
  [][\A t \in DOMAIN teams :
       LET before == teams[t].activeTasks + teams[t].completed
           after == teams'[t].activeTasks + teams'[t].completed
       IN  \/ after = before
           \/ /\ after = before + 1
              /\ \E r \in Slots : AssignCompletes(r) /\ reqs[r].team = t]_vars

\* a team's one task has moved from active to completed
C19_Witness ==
  /\ teams["TeamA"].activeTasks = 0
  /\ teams["TeamA"].completed = 1
  /\ finished["TeamA"].assigns = 1
  /\ finished["TeamA"].resolves = 1

-----------------------------------------------------------------------------
(* Concurrent assign and resolve.                                          *)

\* the active-task count of team t is its initial value plus the assigns to t
\* that completed minus the resolves of complaints of t that completed
CountAccountsForCompleted(t) ==
  teams[t].activeTasks =
    InitTeams[t].activeTasks + finished[t].assigns - finished[t].resolves

OneAssignOneResolveOf(id) ==
  /\ Count(events, "complaint:assigned", NoUser) = 1
  /\ Count(events, "complaint:resolved", NoUser) = 1
  /\ \A i \in DOMAIN events :
       events[i].type \in {"complaint:assigned", "complaint:resolved"} =>
         events[i].id = id
  /\ \E t \in DOMAIN teams : finished[t].assigns = 1

\* C18: when one assign to an Active registered team T and one resolve act on
\* the same initially open, unassigned complaint, in any interleaving of their
\* store calls, then once both have completed T's active-task count is the
\* number of in_progress complaints assigned to T.
C18_AssignResolveRaceKeepsCount ==
  (Quiescent /\ \E id \in DOMAIN complaints : OneAssignOneResolveOf(id))
    => \A t \in DOMAIN teams : teams[t].activeTasks = InProgressAt(t)

\* the resolve completed before the assign it overlapped with, and took the
\* task the assign then counted
C18_Witness ==
  /\ Quiescent
  /\ OneAssignOneResolveOf(1)
  /\ \E i, j \in DOMAIN events :
       /\ i < j
       /\ events[i].type = "complaint:resolved"
       /\ events[j].type = "complaint:assigned"
  /\ complaints[1].status = "resolved"
  /\ complaints[1].assignedTeam = "TeamA"
  /\ teams["TeamA"].activeTasks = 0
  /\ teams["TeamA"].completed = 1

-----------------------------------------------------------------------------
(* Order of broadcasts.                                                    *)

\* C20: every complaint:assigned or complaint:resolved broadcast for a
\* complaint id is preceded by a complaint:new broadcast for the same id,
\* also in runs where a step of create fails after the complaint is stored.
C20_NewPrecedesAssignedAndResolved ==
  \A i \in DOMAIN events :
    events[i].type \in {"complaint:assigned", "complaint:resolved"} =>
      \E j \in 1..(i - 1) :
        events[j].type = "complaint:new" /\ events[j].id = events[i].id

====
